---- MODULE Spec2Model ----
(***************************************************************************)
(* A model of src/cli/quicktype.ts: the command-line front end that reads  *)
(* JSON samples from files, network addresses, standard input or a URL     *)
(* grammar, joins them with the continuation-passing mappers mapArrayC and *)
(* mapObjectValuesC, and hands the aggregate to the rendering engine.      *)
(*                                                                         *)
(* Strings the program takes apart (paths, extensions, language names,     *)
(* top-level names) are sequences of one-character strings.  Messages and  *)
(* tags that are only compared are TLA+ strings.                           *)
(***************************************************************************)
EXTENDS Integers, Sequences, FiniteSets, TLC

(***************************************************************************)
(* Bounds of the model.                                                    *)
(***************************************************************************)
\* the largest number of named groups the grammar engine returns
MaxGroups == 2
\* the longest list of addresses in one group of the grammar engine
MaxUrls == 2

(***************************************************************************)
(* JavaScript values.                                                      *)
(***************************************************************************)
\* an option that was not given on the command line
Undefined == <<"undefined">>
\* options.src when no positional source was given
UndefinedList == <<Undefined>>
\* the value the key mapper passes to arrayContinuation
Null == "null"

\* the operands for which `x || y` evaluates y: undefined and ""
Falsy(v) == v = Undefined \/ v = <<>>

\* a variant for which no value counts as true
TruthyNever(v) == FALSE

\* the values an `if (x)` takes for true
Truthy(v) == ~Falsy(v)

(***************************************************************************)
(* String.prototype.replace(pattern, "") with a string pattern: removes    *)
(* the FIRST occurrence of the pattern, wherever it is.                    *)
(***************************************************************************)
\* pat occurs in s from position i on
OccursAt(s, pat, i) ==
  /\ i >= 1
  /\ i + Len(pat) - 1 <= Len(s)
  /\ SubSeq(s, i, i + Len(pat) - 1) = pat

\* a variant that removes the last occurrence instead
ReplaceLast(s, pat) ==
  IF \E i \in 1..(Len(s) + 1) : OccursAt(s, pat, i)
  THEN LET i == CHOOSE j \in 1..(Len(s) + 1) :
                  /\ OccursAt(s, pat, j)
                  /\ \A k \in (j + 1)..(Len(s) + 1) : ~OccursAt(s, pat, k)
       IN SubSeq(s, 1, i - 1) \o SubSeq(s, i + Len(pat), Len(s))
  ELSE s

\* s.replace(pat, "")
ReplaceFirst(s, pat) ==
  IF \E i \in 1..(Len(s) + 1) : OccursAt(s, pat, i)
  THEN LET i == CHOOSE j \in 1..(Len(s) + 1) :
                  /\ OccursAt(s, pat, j)
                  /\ \A k \in 1..(j - 1) : ~OccursAt(s, pat, k)
       IN SubSeq(s, 1, i - 1) \o SubSeq(s, i + Len(pat), Len(s))
  ELSE s

(***************************************************************************)
(* path.basename and path.extname (POSIX).                                 *)
(***************************************************************************)
RECURSIVE StripTrailingSlashes(_)
StripTrailingSlashes(p) ==
  IF p # <<>> /\ p[Len(p)] = "/"
  THEN StripTrailingSlashes(SubSeq(p, 1, Len(p) - 1))
  ELSE p

\* the last component of the path, trailing separators dropped
basename(p) ==
  LET q == StripTrailingSlashes(p)
      slashes == {i \in 1..Len(q) : q[i] = "/"}
      from == IF slashes = {} THEN 1
              ELSE (CHOOSE i \in slashes : \A j \in slashes : j <= i) + 1
  IN SubSeq(q, from, Len(q))

\* from the last "." of the last component to its end; "" when there is no
\* ".", when the only "." is the component's first character, and for ".."
extname(p) ==
  LET b == basename(p)
      dots == {i \in 1..Len(b) : b[i] = "."}
      last == CHOOSE i \in dots : \A j \in dots : j <= i
  IN IF dots = {} THEN <<>>
     ELSE IF last = 1 THEN <<>>
     ELSE IF b = <<".", ".">> THEN <<>>
     ELSE SubSeq(b, last, Len(b))

\* String.prototype.substr(1)
Substr1(s) == IF Len(s) <= 1 THEN <<>> ELSE SubSeq(s, 2, Len(s))


(***************************************************************************)
(* JavaScript arrays and objects.  An object is the sequence of its        *)
(* <<key, value>> pairs in insertion order, which is the order of          *)
(* Object.keys; assigning to a key it has replaces the value in place.     *)
(***************************************************************************)
\* a variant of the base-case test that is off by one
IsEmptyOne(array) == Len(array) <= 1

\* array.length == 0
IsEmpty(array) == Len(array) = 0

\* array[0]
ArrayFirst(array) == array[1]

\* a variant that keeps nothing of the rest
Slice1Empty(array) == <<>>

\* array.slice(1)
Slice1(array) == IF Len(array) <= 1 THEN <<>> ELSE SubSeq(array, 2, Len(array))

\* a variant that invokes f on every element at once
InvokedOnAll(array) == array

\* a variant that invokes f on nothing
InvokedOnNone(array) == <<>>

\* the elements one call of mapArrayC invokes f on: f(array[0], ...)
InvokedOn(array) == <<ArrayFirst(array)>>

\* a variant that concatenates the other way round
ConcatRestFirst(first, rest) == rest \o <<first>>

\* [first].concat(rest)
ConcatFirst(first, rest) == <<first>> \o rest

\* Object.keys(obj)
ObjectKeys(obj) == [i \in 1..Len(obj) |-> obj[i][1]]

\* key in obj
ObjHas(obj, key) == \E i \in 1..Len(obj) : obj[i][1] = key

\* obj[key]
ObjGet(obj, key) == obj[CHOOSE i \in 1..Len(obj) : obj[i][1] = key][2]

\* a variant that stores every value under one key
ObjSetFixedKey(obj, key, value) == <<<<Undefined, value>>>>

\* obj[key] = value, as in resultObject[key] = newValue
ObjSet(obj, key, value) ==
  IF ObjHas(obj, key)
  THEN [i \in 1..Len(obj) |-> IF obj[i][1] = key THEN <<key, value>> ELSE obj[i]]
  ELSE Append(obj, <<key, value>>)

(***************************************************************************)
(* The inputs of a run.                                                    *)
(***************************************************************************)
\* "go", the fallback target language of inferLang
LangGo == <<"g", "o">>
\* a language name no renderer advertises
LangUnknown == <<"z", "z">>
\* "TopLevel", the fallback name of inferTopLevel
TopLevelLiteral == <<"T", "o", "p", "L", "e", "v", "e", "l">>

\* Main.renderers: the catalogue of the rendering engine
Renderers ==
  { [extension |-> LangGo, aceMode |-> <<"g", "o", "l", "a", "n", "g">>, name |-> <<"G", "o">>],
    [extension |-> <<"c", "s">>, aceMode |-> <<"c", "s", "h", "a", "r", "p">>, name |-> <<"C", "#">>] }

\* "d/Foo.go": an output path with a directory and an extension
PathExt == <<"d", "/", "F", "o", "o", ".", "g", "o">>
\* "d.x/Foo": the directory has a dot, the file has no extension
PathNoExt == <<"d", ".", "x", "/", "F", "o", "o">>
\* "a.gox.go": the text of the extension also occurs earlier in the name
PathTwice == <<"a", ".", "g", "o", "x", ".", "g", "o">>
\* "b.json"
SrcPlain == <<"b", ".", "j", "s", "o", "n">>
\* the marker under which standard input is logged as a source
StdinId == <<"<stdin>">>

OutChoices == {Undefined, PathExt, PathNoExt, PathTwice}
TopLevelChoices == {Undefined, <<"T">>}
LangChoices == {Undefined, LangGo, LangUnknown}
SrcLangChoices == {"json", "schema", "xml"}
SrcIds == {SrcPlain, PathTwice}
UrlsFromChoices == {Undefined, <<"g">>}
GroupNames == {<<"x">>, <<"y">>, <<"z">>}

\* the sequences over S of length at most n
SeqsUpTo(S, n) == UNION {[1..k -> S] : k \in 0..n}

\* the positional sources: absent, one, or more than one (main tells no
\* other lengths apart)
SrcChoices ==
  {UndefinedList, <<SrcPlain>>, <<PathTwice>>, <<SrcPlain, PathTwice>>}

\* what Main.urlsFromJsonGrammar can return in value0 of a success: an
\* object from names (each once) to lists of addresses
GrammarObjects ==
  { o \in SeqsUpTo(GroupNames \X SeqsUpTo(SrcIds, MaxUrls), MaxGroups) :
      \A i, j \in 1..Len(o) : o[i][1] = o[j][1] => i = j }

\* a few of them: no group, one group of two addresses, two groups of one
\* and two addresses, an empty group before a group of one address
SomeGrammarObjects ==
  { <<>>,
    << <<(<<"x">>), <<SrcPlain, PathTwice>>>> >>,
    << <<(<<"y">>), <<PathTwice>>>>, <<(<<"x">>), <<SrcPlain, PathTwice>>>> >>,
    << <<(<<"x">>), <<>>>>, <<(<<"y">>), <<SrcPlain>>>> >> }

\* the outcomes of the rendering engine: a Left or a Right with its value0
RenderOutcomes ==
  { [name |-> "Left", value0 |-> "render error"],
    [name |-> "Right", value0 |-> "generated code"] }

\* the JSON value the Assembler builds from the stream of a source
Sample(id) == [json |-> id, complete |-> TRUE]

\* assembler.current while the value of a source is only partly built
Partial(id) == [json |-> id, complete |-> FALSE]

\* what a stream carries: well-formed JSON text, or text that is not
StreamContents == {"json", "malformed"}

\* a variant of the parser that reports no error and ends on any input
StreamEventsLenient(content) == "end"

\* the event source.output or its parser emits last on a stream: "end" on
\* well-formed JSON, "error" (to which nothing listens) otherwise
StreamEvents(content) == IF content = "json" THEN "end" ELSE "error"

\* assembler.current when the stream of a source stops
Assembled(id, content) == IF content = "json" THEN Sample(id) ELSE Partial(id)


(***************************************************************************)
(* The state.                                                              *)
(***************************************************************************)
VARIABLES
  args,          \* the options as the command line gave them
  noArgs,        \* args.length == 0 in main
  options,       \* the global options object, which main overwrites
  pc,            \* "init" before main, "waiting" for a callback, "done"
  exitCode,      \* the process status, once pc = "done"
  stdout,        \* what was written to standard output, in order
  stderr,        \* what was written to standard error, in order
  files,         \* the writeFileSync calls made, in order
  renderCalls,   \* the calls of the rendering engine and what it returned
  mode,          \* the branch main took
  obj,           \* mapObjectValuesC: the object being mapped
  keys,          \* mapArrayC over the keys: the array of the pending call
  keyFirsts,     \* mapArrayC over the keys: the values its closures hold
  resultObject,  \* mapObjectValuesC: resultObject
  array,         \* mapArrayC over sources: the array of the pending call
  firsts,        \* mapArrayC over sources: the `first` of each closure
  grammar,       \* what the grammar engine returns if it succeeds
  inflight,      \* the sources being resolved and how far each is
  started,       \* the sources whose resolution was started, in order
  completed      \* the sources whose continueWithJson was called, in order

vars ==
  <<args, noArgs, grammar, options, pc, exitCode, stdout, stderr, files, renderCalls,
    mode, obj, keys, keyFirsts, resultObject, array, firsts, inflight,
    started, completed>>

\* the variables of the mappers
mapperVars == <<obj, keys, keyFirsts, resultObject, array, firsts>>

\* what the process has written and whom it has called
outputVars == <<stdout, stderr, files, renderCalls>>

\* the state before main runs
Start ==
  /\ options = args
  /\ pc = "init"
  /\ exitCode = 0
  /\ stdout = <<>>
  /\ stderr = <<>>
  /\ files = <<>>
  /\ renderCalls = <<>>
  /\ mode = "none"
  /\ obj = <<>>
  /\ keys = <<>>
  /\ keyFirsts = <<>>
  /\ resultObject = <<>>
  /\ array = <<>>
  /\ firsts = <<>>
  /\ inflight = <<>>
  /\ started = <<>>
  /\ completed = <<>>

\* commandLineArgs(optionDefinitions): every record of flags; with no
\* argument at all every option is absent and src-lang has its default
Init ==
  /\ args \in [out : OutChoices, topLevel : TopLevelChoices, lang : LangChoices,
               srcLang : SrcLangChoices, src : SrcChoices,
               urlsFrom : UrlsFromChoices, help : BOOLEAN]
  /\ noArgs \in BOOLEAN
  /\ noArgs =>
       args = [out |-> Undefined, topLevel |-> Undefined, lang |-> Undefined,
               srcLang |-> "json", src |-> UndefinedList,
               urlsFrom |-> Undefined, help |-> FALSE]
  /\ grammar \in IF Truthy(args.urlsFrom) THEN SomeGrammarObjects ELSE {<<>>}
  /\ Start

\* the runs that reach the mappers, under a given top-level name: a grammar
\* file with every object of the grammar engine within the bounds, or no
\* grammar file and the positional sources
InitMap ==
  /\ args \in [out : {Undefined}, topLevel : {<<"T">>}, lang : {Undefined},
               srcLang : {"json"}, src : SrcChoices,
               urlsFrom : UrlsFromChoices, help : {FALSE}]
  /\ Truthy(args.urlsFrom) => args.src = UndefinedList
  /\ noArgs = FALSE
  /\ grammar \in IF Truthy(args.urlsFrom) THEN GrammarObjects ELSE {<<>>}
  /\ Start

(***************************************************************************)
(* Rendering and output.  The result of a synchronous call chain is the    *)
(* record of what it wrote and of the status the process ends with: 1     *)
(* after process.exit(1), 0 when it returns and nothing is pending.        *)
(***************************************************************************)
Effects(out, err, written, calls, code) ==
  [stdout |-> out, stderr |-> err, files |-> written, renderCalls |-> calls,
   code |-> code]

\* Main.renderers.find(...): the renderers whose extension, aceMode or name
\* is options.lang
getRenderer(opts) ==
  {r \in Renderers : opts.lang \in {r.extension, r.aceMode, r.name}}

\* the lookup of options["src-lang"] in {json, schema}
PipelineDefined(opts) == opts.srcLang \in {"json", "schema"}

\* a variant that takes every outcome for a success
IsLeftNever(either) == FALSE

\* name == "Left"
IsLeft(either) == either.name = "Left"

\* renderAndOutput with renderFromJsonArrayMap and fromRight inlined in the
\* order the code runs them; `either` is what the engine returns
renderAndOutput(opts, jsonArrayMap, either) ==
  IF ~PipelineDefined(opts)
  THEN Effects(<<>>, <<"Input language is not supported.">>, <<>>, <<>>, 1)
  ELSE IF getRenderer(opts) = {}
  THEN Effects(<<>>, <<"is not yet supported as an output language.">>, <<>>, <<>>, 1)
  ELSE LET call == [input |-> jsonArrayMap, lang |-> opts.lang,
                    srcLang |-> opts.srcLang, outcome |-> either]
       IN IF IsLeft(either)
          THEN Effects(<<>>, <<either.value0>>, <<>>, <<call>>, 1)
          ELSE IF Truthy(opts.out)
          THEN Effects(<<>>, <<>>, <<[path |-> opts.out, data |-> either.value0]>>,
                       <<call>>, 0)
          ELSE Effects(<<either.value0>>, <<>>, <<>>, <<call>>, 0)

\* jsonArrayMap[options["top-level"]] = jsonArray
workFromJsonArray(opts, jsonArray) == ObjSet(<<>>, opts.topLevel, jsonArray)

\* the process ends: by process.exit, or because nothing is pending
Finish(e) ==
  /\ stdout' = stdout \o e.stdout
  /\ stderr' = stderr \o e.stderr
  /\ files' = files \o e.files
  /\ renderCalls' = renderCalls \o e.renderCalls
  /\ pc' = "done"
  /\ exitCode' = e.code
  /\ inflight' = <<>>


(***************************************************************************)
(* Inference of the target language and of the top-level name.             *)
(***************************************************************************)
\* a variant that never finds the extension missing
NoExtensionNever(extension) == FALSE

\* extension == "" in inferLang
NoExtension(extension) == extension = <<>>

\* inferLang: exit = TRUE when it reports the missing extension and exits
inferLang(opts) ==
  IF Truthy(opts.out)
  THEN LET extension == extname(opts.out)
       IN IF NoExtension(extension)
          THEN [exit |-> TRUE, value |-> <<>>]
          ELSE [exit |-> FALSE, value |-> Substr1(extension)]
  ELSE [exit |-> FALSE, value |-> LangGo]

\* path.basename(p).replace(path.extname(p), "")
Without(p) == ReplaceFirst(basename(p), extname(p))

\* inferTopLevel: throws = TRUE when options.src.length is read while
\* options.src is undefined (main defaults it only afterwards)
inferTopLevel(opts) ==
  IF Truthy(opts.out)
  THEN [throws |-> FALSE, value |-> Without(opts.out)]
  ELSE IF opts.src = UndefinedList
  THEN [throws |-> TRUE, value |-> <<>>]
  ELSE IF Len(opts.src) = 1
  THEN [throws |-> FALSE, value |-> Without(opts.src[1])]
  ELSE [throws |-> FALSE, value |-> TopLevelLiteral]

(***************************************************************************)
(* The mappers.                                                            *)
(***************************************************************************)
\* the chain of closures `rest => continuation([first].concat(rest))`, run
\* from the innermost (the last `first`) outwards on the [] of the base case
RECURSIVE Unwind(_)
Unwind(fs) ==
  IF fs = <<>> THEN <<>> ELSE ConcatFirst(fs[1], Unwind(Tail(fs)))

\* one call mapArrayC(arr, f, continuation) whose continuation is wrapped
\* in the closures holding fs: done with the result delivered, or not done
\* and f started on arr[0]
mapArrayC(arr, fs) ==
  IF IsEmpty(arr)
  THEN [done |-> TRUE, result |-> Unwind(fs)]
  ELSE [done |-> FALSE, result |-> <<>>]

\* parseFileOrUrlArray(options.src, workFromJsonArray), from the call
\* mapArrayC(arr, ...) on
SourcesStep(opts, arr, fs) ==
  LET m == mapArrayC(arr, fs)
  IN [done |-> m.done, keys |-> <<>>, keyFirsts |-> <<>>, resultObject |-> <<>>,
      array |-> arr, firsts |-> fs,
      aggregate |-> IF m.done THEN workFromJsonArray(opts, m.result) ELSE <<>>]

\* mapObjectValuesC from the call mapArrayC(ks, ...) over the keys on: every
\* key whose list is empty completes at once, the first key with a source
\* starts it, and with no key left the continuation gets resultObject
RECURSIVE KeysStep(_, _, _, _)
KeysStep(o, ks, kfs, ro) ==
  IF mapArrayC(ks, kfs).done
  THEN [done |-> TRUE, keys |-> ks, keyFirsts |-> kfs, resultObject |-> ro,
        array |-> <<>>, firsts |-> <<>>, aggregate |-> ro]
  ELSE LET key == ArrayFirst(ks)
           value == ObjGet(o, key)
           inner == mapArrayC(value, <<>>)
       IN IF inner.done
          THEN KeysStep(o, Slice1(ks), Append(kfs, Null), ObjSet(ro, key, inner.result))
          ELSE [done |-> FALSE, keys |-> ks, keyFirsts |-> kfs, resultObject |-> ro,
                array |-> value, firsts |-> <<>>, aggregate |-> <<>>]

\* let keys = Object.keys(obj); let resultObject = {}; mapArrayC(keys, ...)
mapObjectValuesC(o) == KeysStep(o, ObjectKeys(o), <<>>, <<>>)

\* the callback `first => mapArrayC(array.slice(1), ...)` of a source of a
\* group, through `resultObject[key] = newValue; arrayContinuation(null)`
GroupCallback(o, ks, kfs, ro, arr, fs, first) ==
  LET inner == mapArrayC(Slice1(arr), Append(fs, first))
  IN IF inner.done
     THEN KeysStep(o, Slice1(ks), Append(kfs, Null),
                   ObjSet(ro, ArrayFirst(ks), inner.result))
     ELSE [done |-> FALSE, keys |-> ks, keyFirsts |-> kfs, resultObject |-> ro,
           array |-> Slice1(arr), firsts |-> Append(fs, first), aggregate |-> <<>>]

\* parseFileOrUrl: an existing file is streamed, anything else is fetched
parseFileOrUrl(fileOrUrl, exists, content) ==
  [id |-> fileOrUrl, phase |-> IF exists THEN "stream" ELSE "fetch",
   content |-> content]

\* what follows a step r of the mappers, `pending` being the sources still
\* in flight: the renderer when the mappers are done, otherwise f on the
\* array of the pending call, which starts to resolve a source
Proceed(opts, r, pending) ==
  /\ keys' = r.keys
  /\ keyFirsts' = r.keyFirsts
  /\ resultObject' = r.resultObject
  /\ array' = r.array
  /\ firsts' = r.firsts
  /\ IF r.done
     THEN /\ \E either \in RenderOutcomes :
               Finish(renderAndOutput(opts, r.aggregate, either))
          /\ started' = started
     ELSE /\ \E exists \in [1..Len(InvokedOn(r.array)) -> BOOLEAN],
               content \in [1..Len(InvokedOn(r.array)) -> StreamContents] :
               inflight' = pending \o
                 [i \in 1..Len(InvokedOn(r.array)) |->
                    parseFileOrUrl(InvokedOn(r.array)[i], exists[i], content[i])]
          /\ started' = started \o InvokedOn(r.array)
          /\ pc' = "waiting"
          /\ UNCHANGED <<exitCode, outputVars>>


(***************************************************************************)
(* main, up to the first wait for a callback.                              *)
(***************************************************************************)
\* the text inferLang writes when the output file has no extension
ExtensionText == "Please specify a language (--lang) or an output file extension."

\* usage()
Usage == Effects(<<"usage">>, <<>>, <<>>, <<>>, 0)

\* a variant of the last branch of main without its process.exit(1)
UsageNoExit == Effects(<<"usage">>, <<>>, <<>>, <<>>, 0)

\* usage(); process.exit(1)
UsageAndExit == Effects(<<"usage">>, <<>>, <<>>, <<>>, 1)

\* the console.error and process.exit(1) of inferLang
MissingExtension ==
  Effects(<<>>, <<ExtensionText>>, <<>>, <<>>, 1)

\* an exception nothing catches: node prints it and exits with status 1
Uncaught(what) == Effects(<<>>, <<what>>, <<>>, <<>>, 1)

\* console.error("Error: " + result); process.exit(1)
GrammarError == Effects(<<>>, <<"Error: ">>, <<>>, <<>>, 1)

\* the if / else-if chain of main, with the options as main has set them
Dispatch(o) ==
  IF noArgs \/ o.help
  THEN /\ mode' = "usage"
       /\ Finish(Usage)
       /\ UNCHANGED <<mapperVars, started>>
  ELSE IF Truthy(o.urlsFrom)
  THEN /\ mode' = "grammar"
       /\ \/ /\ Finish(Uncaught("readFileSync or JSON.parse threw"))
             /\ UNCHANGED <<mapperVars, started>>
          \/ /\ Finish(GrammarError)
             /\ UNCHANGED <<mapperVars, started>>
          \/ /\ obj' = grammar
             /\ Proceed(o, mapObjectValuesC(grammar), <<>>)
  ELSE IF Len(o.src) = 0
  THEN /\ mode' = "stdin"
       /\ \E content \in StreamContents :
            inflight' = <<[id |-> StdinId, phase |-> "stream", content |-> content]>>
       /\ started' = Append(started, StdinId)
       /\ pc' = "waiting"
       /\ UNCHANGED <<mapperVars, exitCode, outputVars>>
  ELSE IF Len(o.src) = 1
  THEN /\ mode' = "single"
       /\ obj' = obj
       /\ Proceed(o, SourcesStep(o, o.src, <<>>), <<>>)
  ELSE /\ mode' = "usage"
       /\ Finish(UsageAndExit)
       /\ UNCHANGED <<mapperVars, started>>

main ==
  /\ pc = "init"
  /\ UNCHANGED <<args, noArgs, grammar, completed>>
  /\ LET lang == IF Falsy(options.lang) THEN inferLang(options)
                 ELSE [exit |-> FALSE, value |-> options.lang]
         o1 == [options EXCEPT !.lang = lang.value]
         top == IF Falsy(o1.topLevel) THEN inferTopLevel(o1)
                ELSE [throws |-> FALSE, value |-> o1.topLevel]
         o2 == [o1 EXCEPT !.topLevel = top.value,
                          !.src = IF o1.src = UndefinedList THEN <<>> ELSE o1.src]
     IN IF lang.exit
        THEN /\ Finish(MissingExtension)
             /\ UNCHANGED <<options, mode, mapperVars, started>>
        ELSE IF top.throws
        THEN /\ Finish(Uncaught("TypeError: Cannot read property 'length' of undefined"))
             /\ options' = o1
             /\ UNCHANGED <<mode, mapperVars, started>>
        ELSE /\ options' = o2
             /\ Dispatch(o2)

(***************************************************************************)
(* The callbacks.                                                          *)
(***************************************************************************)
\* seq without its j-th element
Remove(seq, j) == SubSeq(seq, 1, j - 1) \o SubSeq(seq, j + 1, Len(seq))

\* fetch(fileOrUrl).then(res => parseJsonFromStream(res.body, ...))
FetchResolved ==
  /\ pc = "waiting"
  /\ \E j \in 1..Len(inflight) :
       /\ inflight[j].phase = "fetch"
       /\ inflight' = [inflight EXCEPT ![j].phase = "stream"]
  /\ UNCHANGED <<args, noArgs, grammar, options, pc, exitCode, outputVars, mode,
                 mapperVars, started, completed>>

\* the promise of fetch rejects and nothing handles the rejection: the
\* runtime reports it, and depending on its version the process then ends
\* with status 1 or, with nothing left to wait for, with status 0
FetchRejected ==
  /\ pc = "waiting"
  /\ \E j \in 1..Len(inflight) : inflight[j].phase = "fetch"
  /\ \E code \in {0, 1} :
       Finish(Effects(<<>>, <<"UnhandledPromiseRejection">>, <<>>, <<>>, code))
  /\ UNCHANGED <<args, noArgs, grammar, options, mode, mapperVars, started, completed>>

\* the stream or the parser emits "error", which has no listener
StreamError ==
  /\ pc = "waiting"
  /\ \E j \in 1..Len(inflight) :
       /\ inflight[j].phase = "stream"
       /\ StreamEvents(inflight[j].content) = "error"
  /\ Finish(Uncaught("Unhandled 'error' event"))
  /\ UNCHANGED <<args, noArgs, grammar, options, mode, mapperVars, started, completed>>

\* source.output emits "end": continueWithJson(assembler.current), and all
\* that runs synchronously from it
StreamEnd ==
  /\ pc = "waiting"
  /\ \E j \in 1..Len(inflight) :
       /\ inflight[j].phase = "stream"
       /\ StreamEvents(inflight[j].content) = "end"
       /\ completed' = Append(completed, inflight[j].id)
       /\ LET json == Assembled(inflight[j].id, inflight[j].content)
              pending == Remove(inflight, j)
          IN IF mode = "stdin"
             THEN /\ \E either \in RenderOutcomes :
                       Finish(renderAndOutput(options,
                                workFromJsonArray(options, <<json>>), either))
                  /\ UNCHANGED <<keys, keyFirsts, resultObject, array, firsts, started>>
             ELSE IF mode = "single"
             THEN Proceed(options,
                          SourcesStep(options, Slice1(array), Append(firsts, json)),
                          pending)
             ELSE Proceed(options,
                          GroupCallback(obj, keys, keyFirsts, resultObject,
                                        array, firsts, json),
                          pending)
  /\ UNCHANGED <<args, noArgs, grammar, options, mode, obj>>

Next == main \/ FetchResolved \/ FetchRejected \/ StreamError \/ StreamEnd

Spec == Init /\ [][Next]_vars

SpecMap == InitMap /\ [][Next]_vars

\* Spec with the completion callbacks of the sources taken to fire: a pending
\* request that is not rejected is eventually answered, and a stream that is
\* well-formed eventually ends
SpecFair ==
  /\ Init
  /\ [][Next]_vars
  /\ WF_vars(FetchResolved)
  /\ WF_vars(StreamEnd)


(***************************************************************************)
(* What the claims speak of.                                               *)
(***************************************************************************)
\* a is an initial part of b
IsPrefix(a, b) == Len(a) <= Len(b) /\ a = SubSeq(b, 1, Len(a))

\* the Named Group Request of the run: names to ordered source identifiers
Request ==
  IF mode = "grammar" THEN obj
  ELSE IF mode = "single" THEN <<<<options.topLevel, options.src>>>>
  ELSE IF mode = "stdin" THEN <<<<options.topLevel, <<StdinId>>>>>>
  ELSE <<>>

\* every source identifier of the request, group after group
RECURSIVE Flatten(_)
Flatten(o) == IF o = <<>> THEN <<>> ELSE o[1][2] \o Flatten(Tail(o))

\* the names of the groups of an object
KeySet(o) == {o[i][1] : i \in 1..Len(o)}

\* `delivered` is, element by element, the samples of the identifiers `ids`
SamplesInOrder(delivered, ids) ==
  /\ Len(delivered) = Len(ids)
  /\ \A i \in 1..Len(ids) : delivered[i] = Sample(ids[i])

\* the rendering engine has been called
Rendered == renderCalls # <<>>

\* C1: the sequence a group's mapArrayC / parseFileOrUrlArray delivers has
\* one element per source identifier of the group, the i-th being the sample
\* of the i-th identifier; a group without identifiers delivers the empty
\* sequence and starts no transform.
C1_SamplesInInputOrder ==
  /\ mode = "grammar" =>
       /\ \A i \in 1..Len(resultObject) :
            /\ ObjHas(obj, resultObject[i][1])
            /\ SamplesInOrder(resultObject[i][2], ObjGet(obj, resultObject[i][1]))
       /\ Flatten(obj) = <<>> => started = <<>>
  /\ (mode = "single" /\ Rendered) =>
       \A c \in 1..Len(renderCalls) :
         \A i \in 1..Len(renderCalls[c].input) :
           SamplesInOrder(renderCalls[c].input[i][2], options.src)

\* a group of two different sources has been delivered
C1_Witness ==
  /\ mode = "grammar"
  /\ \E i \in 1..Len(resultObject) :
       /\ Len(resultObject[i][2]) = 2
       /\ resultObject[i][2][1] # resultObject[i][2][2]

\* C2: at most one transform is started and not completed, transforms
\* complete in the order they start, and they start in input order (of the
\* group's list and, between groups, of the keys).
C2_OneAtATimeInOrder ==
  mode \in {"grammar", "single"} =>
    /\ Len(started) - Len(completed) \in {0, 1}
    /\ IsPrefix(completed, started)
    /\ IsPrefix(started, Flatten(Request))
    /\ Len(inflight) <= 1
    /\ (inflight # <<>>) => (Len(started) = Len(completed) + 1
                              /\ inflight[1].id = started[Len(started)])

\* the second source of a list of two different ones is in flight, the
\* first having completed
C2_Witness ==
  /\ mode = "grammar"
  /\ Len(started) = 2
  /\ Len(completed) = 1
  /\ started[1] # started[2]
  /\ Len(array) = 1
  /\ inflight # <<>>
  /\ inflight[1].id = started[2]

\* C3: mapObjectValuesC delivers an object with exactly the keys of its
\* input, each bound to what the transform made of that key's value.
C3_KeysPreserved ==
  (mode = "grammar" /\ keys = <<>>) =>
    /\ KeySet(resultObject) = KeySet(obj)
    /\ Len(resultObject) = Len(obj)
    /\ \A k \in KeySet(obj) :
         ObjHas(resultObject, k)
         /\ SamplesInOrder(ObjGet(resultObject, k), ObjGet(obj, k))
    /\ \A c \in 1..Len(renderCalls) : renderCalls[c].input = resultObject

\* an object of two keys went through the mapper and reached the renderer
C3_Witness ==
  /\ mode = "grammar"
  /\ keys = <<>>
  /\ Len(obj) = 2
  /\ Len(resultObject) = 2
  /\ Rendered

\* C4: the rendering engine is called at most once, and only when every
\* source of every group has delivered its sample; its input has every
\* group of the request, each with one sample per source.
C4_RenderOnceAfterAll ==
  /\ Len(renderCalls) <= 1
  /\ Rendered =>
       /\ completed = Flatten(Request)
       /\ KeySet(renderCalls[1].input) = KeySet(Request)
       /\ \A k \in KeySet(Request) :
            ObjHas(renderCalls[1].input, k)
            /\ Len(ObjGet(renderCalls[1].input, k)) = Len(ObjGet(Request, k))

\* the engine was called after three sources in two groups
C4_Witness ==
  /\ Rendered
  /\ mode = "grammar"
  /\ Len(obj) = 2
  /\ Len(completed) >= 3


\* the language of the --lang flag is one no renderer advertises
UnknownLangFlag ==
  /\ Truthy(args.lang)
  /\ \A r \in Renderers : args.lang \notin {r.extension, r.aceMode, r.name}

\* C5: with a --lang flag naming a language no renderer advertises, the
\* process exits before any source (file, address, standard input) is
\* opened, requested or read.
C5_UnknownLangBeforeSources ==
  UnknownLangFlag => started = <<>>

\* C6: with a source-language selector that is neither json nor schema, the
\* error is detected before any I/O on any source.
C6_UnknownSrcLangBeforeIO ==
  args.srcLang \notin {"json", "schema"} => started = <<>>

\* the rendering engine has returned an error outcome
RenderFailed ==
  \E c \in 1..Len(renderCalls) : renderCalls[c].outcome.name = "Left"

\* C7: when the rendering engine returns an error outcome, its payload is
\* written to standard error, the process exits with non-zero status, no
\* file is written and nothing is written to standard output.
C7_RenderErrorNoOutput ==
  \A c \in 1..Len(renderCalls) :
    renderCalls[c].outcome.name = "Left" =>
      /\ stderr # <<>>
      /\ stderr[Len(stderr)] = renderCalls[c].outcome.value0
      /\ pc = "done"
      /\ exitCode # 0
      /\ files = <<>>
      /\ stdout = <<>>

\* the engine failed in a run that names an output destination
C7_Witness ==
  /\ RenderFailed
  /\ Truthy(args.out)
  /\ pc = "done"

\* C8: an output destination without extension and no --lang flag: the
\* configuration error is reported, the status is non-zero, no source is
\* read and the engine is not called; with a --lang flag the missing
\* extension is not reported as an error.
C8_MissingExtension ==
  /\ (Truthy(args.out) /\ extname(args.out) = <<>> /\ Falsy(args.lang) /\ pc # "init") =>
       /\ pc = "done"
       /\ exitCode # 0
       /\ stderr = <<ExtensionText>>
       /\ stdout = <<>>
       /\ files = <<>>
       /\ started = <<>>
       /\ ~Rendered
  /\ Truthy(args.lang) =>
       \A i \in 1..Len(stderr) : stderr[i] # ExtensionText

\* main has run on an extensionless destination without a --lang flag
C8_Witness ==
  /\ args.out = PathNoExt
  /\ Falsy(args.lang)
  /\ ~args.help
  /\ args.src # UndefinedList
  /\ pc = "done"
  /\ exitCode = 1

\* s with its trailing extension ext (a suffix of s) cut off
WithoutTrailing(s, ext) == SubSeq(s, 1, Len(s) - Len(ext))

\* main has set options.lang and options["top-level"]
Configured == mode # "none"

\* C9: an output destination with a non-empty extension, no --lang and no
\* --top-level flag: the language is the extension without its dot and the
\* top-level name is the basename with that trailing extension removed.
C9_InferredFromOut ==
  (Truthy(args.out) /\ extname(args.out) # <<>> /\ Falsy(args.lang)
     /\ Falsy(args.topLevel) /\ Configured) =>
    /\ options.lang = Substr1(extname(args.out))
    /\ options.topLevel = WithoutTrailing(basename(args.out), extname(args.out))

\* exactly one positional source and no --top-level flag
OneSourceNoName ==
  /\ args.src # UndefinedList
  /\ Len(args.src) = 1
  /\ Falsy(args.topLevel)

\* the aggregate of call c is one group named name holding the one sample
\* of the source src
OneGroupOneSample(c, name, src) ==
  /\ Len(renderCalls[c].input) = 1
  /\ renderCalls[c].input[1][1] = name
  /\ renderCalls[c].input[1][2] = <<Sample(src)>>

FirstOccurrenceRemoved(s, pat, r) ==
  \/ /\ \A i \in 1..(Len(s) + 1) : ~OccursAt(s, pat, i)
     /\ r = s
  \/ \E i \in 1..(Len(s) + 1) :
       /\ OccursAt(s, pat, i)
       /\ \A k \in 1..(i - 1) : ~OccursAt(s, pat, k)
       /\ Len(r) = Len(s) - Len(pat)
       /\ \A n \in 1..Len(r) : r[n] = IF n < i THEN s[n] ELSE s[n + Len(pat)]

NotOneSource ==
  /\ Falsy(args.topLevel)
  /\ Falsy(args.out)
  /\ \/ args.src = UndefinedList
     \/ Len(args.src) # 1

\* C11: with no top-level-name flag and no output destination, whenever the
\* number of explicit sources is not exactly one (the source list absent,
\* empty, or of two or more), the inferred top-level name is the fallback
\* literal "TopLevel" and the inference does not fault.
C11_FallbackNameNeverFaults ==
  (pc # "init" /\ NotOneSource) =>
    /\ options.topLevel = TopLevelLiteral
    /\ \A i \in 1..Len(stderr) :
         stderr[i] # "TypeError: Cannot read property 'length' of undefined"

\* ---- C12 ----
\* main was given neither a grammar-expansion file nor a source, and help
\* was not requested
NothingToRead ==
  /\ Falsy(args.urlsFrom)
  /\ args.src = UndefinedList
  /\ ~ args.help

\* C12: whenever no grammar-expansion file and no explicit source are given
\* and help is not requested, then (unless the configuration is refused for a
\* missing output extension) standard input is read as the single source, and
\* what the renderer is handed has exactly one group, under the inferred
\* top-level name, holding exactly one sample, the value parsed from standard
\* input.
C12_StdinIsTheSource ==
  (pc # "init" /\ NothingToRead
     /\ \A i \in 1..Len(stderr) : stderr[i] # ExtensionText) =>
    /\ started = <<StdinId>>
    /\ \A i \in 1..Len(renderCalls) :
         renderCalls[i].input = <<<<options.topLevel, <<Sample(StdinId)>>>>>>

\* ---- C13 ----
\* main was given two or more explicit sources and no grammar-expansion file
SeveralSources ==
  /\ Falsy(args.urlsFrom)
  /\ args.src # UndefinedList
  /\ Len(args.src) > 1

\* usage was displayed and nothing else was done: no source read, the
\* rendering engine not invoked, no generated text written
OnlyUsage ==
  /\ stdout = <<"usage">>
  /\ started = <<>>
  /\ renderCalls = <<>>
  /\ files = <<>>

\* C13 as stated: with more than one explicit source and no grammar-expansion
\* file, the program displays usage and ends with non-zero status, without
\* reading a source, invoking the rendering engine or writing output.
C13_AsStated ==
  (pc # "init" /\ SeveralSources) =>
    /\ pc = "done"
    /\ exitCode # 0
    /\ OnlyUsage

\* C13: with more than one explicit source, no grammar-expansion file, help
\* not requested, and a target language that is given or inferable (not an
\* output destination without extension and without --lang), the program
\* displays usage and ends with status 1, without reading a source, invoking
\* the rendering engine or writing output.
C13_SeveralSourcesUsageExit ==
  (pc # "init" /\ SeveralSources /\ ~ args.help
     /\ (Truthy(args.lang) \/ Falsy(args.out) \/ extname(args.out) # <<>>)) =>
    /\ pc = "done"
    /\ exitCode = 1
    /\ OnlyUsage
    /\ stderr = <<>>

C13_Witness ==
  /\ pc = "done"
  /\ SeveralSources
  /\ ~ args.help
  /\ mode = "usage"
  /\ exitCode = 1
  /\ stdout = <<"usage">>

\* ---- C14 ----
\* C14: whenever the help flag is given, whatever the other flags are, the
\* program prints the usage text and does nothing else: no source is read,
\* the rendering engine is not invoked, no output is written, no error is
\* reported and the process does not end with non-zero status.
C14_HelpOnlyUsage ==
  (pc # "init" /\ args.help) =>
    /\ pc = "done"
    /\ OnlyUsage
    /\ stderr = <<>>
    /\ exitCode = 0

\* ---- C15 ----
\* C15: when a grammar-expansion file is given and help is not requested,
\* the only sources read are addresses the grammar engine returned, in its
\* order (positional sources are not read), and what the renderer is handed
\* has exactly the group names the grammar engine returned, each group
\* holding one sample per address of that group's list, in the list's order.
C15_GrammarGroupsOnly ==
  (Truthy(args.urlsFrom) /\ ~ args.help) =>
    /\ IsPrefix(started, Flatten(grammar))
    /\ \A c \in 1..Len(renderCalls) :
         /\ Len(renderCalls[c].input) = Len(grammar)
         /\ \A g \in 1..Len(grammar) :
              /\ renderCalls[c].input[g][1] = grammar[g][1]
              /\ Len(renderCalls[c].input[g][2]) = Len(grammar[g][2])
              /\ \A i \in 1..Len(grammar[g][2]) :
                   renderCalls[c].input[g][2][i] = Sample(grammar[g][2][i])

\* a grammar of two groups was expanded while a positional source was given,
\* and the renderer was handed the result
C15_Witness ==
  /\ Truthy(args.urlsFrom)
  /\ ~ args.help
  /\ args.src # UndefinedList
  /\ Len(grammar) = 2
  /\ Len(Flatten(grammar)) = 3
  /\ started = Flatten(grammar)
  /\ Rendered

\* ---- C16 ----
\* the promise of fetch rejected for some source of the run
FetchFailed ==
  \E i \in 1..Len(stderr) : stderr[i] = "UnhandledPromiseRejection"

\* C16: if resolving a source fails (the network request for an identifier
\* that is no file fails), the run ends with non-zero status and an error
\* message, the rendering engine is never invoked and no output is written;
\* the run does not end with success status having produced no output.
C16_FetchFailureIsAnError ==
  FetchFailed =>
    /\ pc = "done"
    /\ exitCode # 0
    /\ stderr # <<>>
    /\ renderCalls = <<>>
    /\ files = <<>>
    /\ stdout = <<>>

\* ---- C17 ----
\* the stream of the j-th source in flight is being parsed and is malformed
MalformedStream(j) ==
  /\ inflight[j].phase = "stream"
  /\ inflight[j].content = "malformed"

\* every sample of every group the renderer was handed is a whole value
NoPartialRendered ==
  \A c \in 1..Len(renderCalls) :
    \A g \in 1..Len(renderCalls[c].input) :
      \A i \in 1..Len(renderCalls[c].input[g][2]) :
        renderCalls[c].input[g][2][i].complete

\* a step that ends the parsing of a malformed stream calls no continuation
\* (the source does not complete, nothing further is started or rendered) and
\* ends the process with an error message and status 1
MalformedEndsInError ==
  \A j \in 1..Len(inflight) :
    (MalformedStream(j) /\ inflight' # inflight) =>
      /\ completed' = completed
      /\ started' = started
      /\ renderCalls' = renderCalls
      /\ firsts' = firsts
      /\ resultObject' = resultObject
      /\ pc' = "done"
      /\ exitCode' = 1
      /\ Len(stderr') = Len(stderr) + 1

C18_ExactlyOneSink ==
  \A c \in 1..Len(renderCalls) :
    renderCalls[c].outcome.name = "Right" =>
      IF args.out # Undefined
      THEN /\ files = <<[path |-> args.out, data |-> renderCalls[c].outcome.value0]>>
           /\ stdout = <<>>
      ELSE /\ stdout = <<renderCalls[c].outcome.value0>>
           /\ files = <<>>

\* a success was written to the named output destination
C18_Witness ==
  /\ pc = "done"
  /\ args.out # Undefined
  /\ Len(renderCalls) = 1
  /\ renderCalls[1].outcome.name = "Right"
  /\ Len(files) = 1
  /\ exitCode = 0

\* ---- C19 ----
\* the number of sources in the groups before the g-th group of o
GroupOffset(o, g) == Len(Flatten(SubSeq(o, 1, g - 1)))

\* C19: in grammar-expansion mode at most one source, over all groups, is
\* being resolved or parsed at any time, and the first source of a group is
\* started only once every source of the groups before it has completed.
C19_GroupsNeverOverlap ==
  mode = "grammar" =>
    /\ Len(inflight) <= 1
    /\ \A j \in 1..Len(inflight) :
         /\ Len(started) \in 1..Len(Flatten(grammar))
         /\ inflight[j].id = Flatten(grammar)[Len(started)]
    /\ \A g \in 1..Len(grammar) :
         Len(started) > GroupOffset(grammar, g) =>
           /\ Len(completed) >= GroupOffset(grammar, g)
           /\ SubSeq(completed, 1, GroupOffset(grammar, g))
                = Flatten(SubSeq(grammar, 1, g - 1))

\* the first source of the second of two groups is in flight, the first
\* group having had two sources
C19_Witness ==
  /\ mode = "grammar"
  /\ Len(grammar) = 2
  /\ Len(grammar[1][2]) = 2
  /\ Len(grammar[2][2]) >= 1
  /\ Len(started) = 3
  /\ Len(completed) = 2
  /\ Len(inflight) = 1

\* ---- C20 ----
\* no source of the run fails: no request is rejected and no stream in
\* flight is malformed
NoFailure ==
  /\ ~ FetchFailed
  /\ \A j \in 1..Len(inflight) : inflight[j].content = "json"

\* the language flags name a pipeline and a renderer
ValidLanguages == PipelineDefined(options) /\ getRenderer(options) # {}

\* the run is over, every source of the request has completed, and the final
\* continuation was invoked once: it called the rendering engine once, or,
\* the languages being unknown, refused to
Terminated ==
  /\ pc = "done"
  /\ completed = Flatten(Request)
  /\ Len(renderCalls) <= 1
  /\ ValidLanguages => Len(renderCalls) = 1

\* while a source waits for its callback it is the only one started and not
\* completed, and the renderer has not been invoked
WaitingForOne ==
  pc = "waiting" =>
    /\ Len(started) = Len(completed) + 1
    /\ renderCalls = <<>>

\* once the run waits for a callback, a source is started or the renderer
\* invoked only in a step in which the callback of the pending source fires
StartsOnlyOnCallback ==
  (pc = "waiting" /\ (started' # started \/ renderCalls' # renderCalls)) =>
    /\ Len(completed') = Len(completed) + 1
    /\ completed'[Len(completed')] = started[Len(started)]

\* C20: with the completion callbacks fair, if no source fails (each fires
\* its callback, once), a run that waits for a source eventually ends with
\* every source completed and the final continuation invoked exactly once;
\* and as long as the callback of a source has not fired, no later source is
\* started and the renderer is not invoked.
C20_FairCallbacksTerminate ==
  /\ ([] NoFailure) => ((pc = "waiting") ~> Terminated)
  /\ [] WaitingForOne
  /\ [][StartsOnlyOnCallback]_vars

\* a run over three sources in two groups ended with the renderer invoked
C20_Witness ==
  /\ pc = "done"
  /\ mode = "grammar"
  /\ Len(completed) = 3
  /\ completed = Flatten(Request)
  /\ Len(renderCalls) = 1
  /\ ~ FetchFailed

====
